---------------------------- MODULE Spec2Model ----------------------------
(***************************************************************************)
(* Webhook receiver of webhooks-snippets/rust/src/main.rs: the handler of  *)
(* POST /webhook and the verifier is_webhook_event_valid.                  *)
(*                                                                         *)
(* Text is modelled as the sequence of its bytes (a String of the source   *)
(* is the sequence of its UTF-8 bytes), so that parsing, formatting, hex   *)
(* encoding and the byte-wise comparison are computed as the code computes *)
(* them.  The i64 of the source is modelled with IntBits bits instead of   *)
(* 64 (TLC's integers are 32 bits wide); every boundary value is derived   *)
(* from IntBits.                                                           *)
(***************************************************************************)
EXTENDS Integers, Sequences, FiniteSets, TLC

VARIABLES now, overflow_checks, stdout, msg, replies

vars == <<now, overflow_checks, stdout, msg, replies>>

---------------------------------------------------------------------------
(* Bounds of the model *)

\* width of the signed integer type standing for i64
IntBits == 24
\* the wall clock (ms since the epoch) when the server starts
Now0 == 1000000
\* how many milliseconds the clock advances during a run
MaxTicks == 1
\* how many times the sender delivers its request
MaxDeliveries == 2
\* how many lines the model lets stdout hold
MaxLog == 3

---------------------------------------------------------------------------
(* Program constants *)

SERVER_PORT == 5080

MAX_WEBHOOK_AGE == 120 * 1000

\* "meet-api-key"
OPENVIDU_MEET_API_KEY == <<109, 101, 101, 116, 45, 97, 112, 105, 45, 107, 101, 121>>

\* output size of Sha256 in bytes
DigestBytes == 32

I64_MAX == 2^(IntBits - 1) - 1

I64_MIN == -(2^(IntBits - 1))

\* "x-signature"
X_SIGNATURE == <<120, 45, 115, 105, 103, 110, 97, 116, 117, 114, 101>>

\* "x-timestamp"
X_TIMESTAMP == <<120, 45, 116, 105, 109, 101, 115, 116, 97, 109, 112>>

\* "Invalid webhook signature"
INVALID_WEBHOOK_SIGNATURE ==
    <<73, 110, 118, 97, 108, 105, 100, 32, 119, 101, 98, 104, 111, 111, 107,
      32, 115, 105, 103, 110, 97, 116, 117, 114, 101>>

\* "Webhook received: "
WEBHOOK_RECEIVED ==
    <<87, 101, 98, 104, 111, 111, 107, 32, 114, 101, 99, 101, 105, 118, 101,
      100, 58, 32>>

\* "Webhook server listening on port "
LISTENING_ON_PORT ==
    <<87, 101, 98, 104, 111, 111, 107, 32, 115, 101, 114, 118, 101, 114, 32,
      108, 105, 115, 116, 101, 110, 105, 110, 103, 32, 111, 110, 32, 112,
      111, 114, 116, 32>>

---------------------------------------------------------------------------
(* Byte arithmetic *)

\* bit j of the byte a
Bit(a, j) == (a \div (2^j)) % 2

XorBit(a, b, j) == (Bit(a, j) + Bit(b, j)) % 2

OrBit(a, b, j) == IF Bit(a, j) + Bit(b, j) > 0 THEN 1 ELSE 0

\* a ^ b on u8
BitXor(a, b) ==
    IF a = b THEN 0 ELSE
    XorBit(a, b, 0) + 2 * XorBit(a, b, 1) + 4 * XorBit(a, b, 2) + 8 * XorBit(a, b, 3)
    + 16 * XorBit(a, b, 4) + 32 * XorBit(a, b, 5) + 64 * XorBit(a, b, 6)
    + 128 * XorBit(a, b, 7)

\* a | b on u8
BitOr(a, b) ==
    OrBit(a, b, 0) + 2 * OrBit(a, b, 1) + 4 * OrBit(a, b, 2) + 8 * OrBit(a, b, 3)
    + 16 * OrBit(a, b, 4) + 32 * OrBit(a, b, 5) + 64 * OrBit(a, b, 6)
    + 128 * OrBit(a, b, 7)

---------------------------------------------------------------------------
(* std::str::from_utf8: TRUE iff the bytes are well-formed UTF-8 *)

IsCont(b) == b >= 128 /\ b <= 191

RECURSIVE Utf8From(_, _)
Utf8From(b, i) ==
    IF i > Len(b) THEN TRUE
    ELSE LET c == b[i]
             n == Len(b) - i
         IN  IF c < 128 THEN Utf8From(b, i + 1)
             ELSE IF c >= 194 /\ c <= 223
             THEN n >= 1 /\ IsCont(b[i + 1]) /\ Utf8From(b, i + 2)
             ELSE IF c >= 224 /\ c <= 239
             THEN /\ n >= 2
                  /\ CASE c = 224 -> b[i + 1] >= 160 /\ b[i + 1] <= 191
                       [] c = 237 -> b[i + 1] >= 128 /\ b[i + 1] <= 159
                       [] OTHER   -> IsCont(b[i + 1])
                  /\ IsCont(b[i + 2])
                  /\ Utf8From(b, i + 3)
             ELSE IF c >= 240 /\ c <= 244
             THEN /\ n >= 3
                  /\ CASE c = 240 -> b[i + 1] >= 144 /\ b[i + 1] <= 191
                       [] c = 244 -> b[i + 1] >= 128 /\ b[i + 1] <= 143
                       [] OTHER   -> IsCont(b[i + 1])
                  /\ IsCont(b[i + 2])
                  /\ IsCont(b[i + 3])
                  /\ Utf8From(b, i + 4)
             ELSE FALSE

from_utf8(body) == Utf8From(body, 1)

\* HeaderValue::to_str: Ok iff every byte is visible ASCII or a tab
to_str_ok(value) == \A i \in 1..Len(value) : (value[i] >= 32 /\ value[i] < 127) \/ value[i] = 9

\* str::to_lowercase on a header name (ASCII)
to_lowercase(s) == [i \in 1..Len(s) |-> IF s[i] >= 65 /\ s[i] <= 90 THEN s[i] + 32 ELSE s[i]]

---------------------------------------------------------------------------
(* i64: parsing, formatting, subtraction *)

IsDigit(c) == c >= 48 /\ c <= 57

RECURSIVE ParseDigits(_, _, _, _)
\* the digit loop of i64::from_str: checked multiply by 10, then checked
\* add (positive) or subtract (negative) of the digit
ParseDigits(s, i, acc, positive) ==
    IF i > Len(s) THEN [ok |-> TRUE, val |-> acc]
    ELSE IF ~IsDigit(s[i]) THEN [ok |-> FALSE, val |-> 0]
    ELSE LET mul == acc * 10
             nxt == IF positive THEN mul + (s[i] - 48) ELSE mul - (s[i] - 48)
         IN  IF mul > I64_MAX \/ mul < I64_MIN \/ nxt > I64_MAX \/ nxt < I64_MIN
             THEN [ok |-> FALSE, val |-> 0]
             ELSE ParseDigits(s, i + 1, nxt, positive)

\* timestamp_str.parse::<i64>()
parse(s) ==
    IF Len(s) = 0 THEN [ok |-> FALSE, val |-> 0]
    ELSE IF s[1] \in {43, 45}
    THEN IF Len(s) = 1 THEN [ok |-> FALSE, val |-> 0]
         ELSE ParseDigits(s, 2, 0, s[1] = 43)
    ELSE ParseDigits(s, 1, 0, TRUE)

RECURSIVE FmtDigits(_)
FmtDigits(n) == IF n < 10 THEN <<48 + n>> ELSE FmtDigits(n \div 10) \o <<48 + (n % 10)>>

\* Display of an integer, as format!("{}", timestamp) renders it
to_string(n) == IF n < 0 THEN <<45>> \o FmtDigits(-n) ELSE FmtDigits(n)

\* a - b on i64: a debug build (overflow checks on) panics on overflow, a
\* release build wraps around
i64_sub(a, b, checks) ==
    LET exact == a - b
    IN  IF exact >= I64_MIN /\ exact <= I64_MAX
        THEN [panic |-> FALSE, val |-> exact]
        ELSE IF checks
        THEN [panic |-> TRUE, val |-> 0]
        ELSE [panic |-> FALSE,
              val |-> ((exact + 2^(IntBits - 1)) % 2^IntBits) - 2^(IntBits - 1)]

---------------------------------------------------------------------------
(* HMAC-SHA256 and hex *)

RECURSIVE Absorb(_, _, _)
\* the running hash after the first i bytes of s, started from h0
Absorb(s, i, h0) ==
    IF i = 0 THEN h0
    ELSE ((Absorb(s, i - 1, h0) * 131) + s[i] + 1) % 15485863

\* Stand-in for Hmac<Sha256>: a deterministic keyed digest of DigestBytes
\* bytes (the compression function of SHA-256 is not modelled): a
\* polynomial hash of the key followed by the message, spread over the
\* output bytes
HmacSha256(key, message) ==
    LET h == Absorb(message, Len(message), Absorb(key, Len(key), 7))
    IN  [k \in 1..DigestBytes |->
            ((h \div (2^((k - 1) % 17))) + (k * (h % 251))) % 256]

HexChar(d) == IF d < 10 THEN 48 + d ELSE 87 + d

\* hex::encode: two lowercase hex digits per byte
hex_encode(bytes) ==
    [i \in 1..(2 * Len(bytes)) |->
        LET b == bytes[(i + 1) \div 2]
        IN  IF (i % 2) = 1 THEN HexChar(b \div 16) ELSE HexChar(b % 16)]

---------------------------------------------------------------------------
(* The verifier *)

\* is_stale with the window taken in seconds instead of milliseconds
is_stale_seconds(diff_time) == diff_time >= 120

\* is_stale bounding the age on both sides
is_stale_abs(diff_time) ==
    (IF diff_time < 0 THEN -diff_time ELSE diff_time) >= MAX_WEBHOOK_AGE

\* diff_time >= MAX_WEBHOOK_AGE
is_stale(diff_time) == diff_time >= MAX_WEBHOOK_AGE

\* signed_payload rendering the timestamp with an explicit sign ("{:+}")
signed_payload_plus(timestamp, body_str) ==
    (IF timestamp >= 0 THEN <<43>> ELSE <<>>) \o to_string(timestamp) \o <<46>> \o body_str

\* format!("{}.{}", timestamp, body_str): the parsed integer rendered again
signed_payload(timestamp, body_str) == to_string(timestamp) \o <<46>> \o body_str

\* the lowercase hex of the HMAC of the signed payload under the API key
\* (new_from_slice accepts a key of any length: its Err arm is dead)
expected_hex(timestamp, body_str) ==
    hex_encode(HmacSha256(OPENVIDU_MEET_API_KEY, signed_payload(timestamp, body_str)))

\* the values a ^ b of the pairs (a, b) in
\* signature.bytes().zip(expected_hex.bytes())
ZippedXor(signature, expected) ==
    { BitXor(signature[i], expected[i]) :
        i \in 1..(IF Len(signature) < Len(expected) THEN Len(signature) ELSE Len(expected)) }

\* Accumulate assigning instead of or-ing (result = a ^ b): only the last
\* pair decides
Accumulate_last_only(signature, expected) ==
    LET n == IF Len(signature) < Len(expected) THEN Len(signature) ELSE Len(expected)
    IN  IF n = 0 THEN 0 ELSE BitXor(signature[n], expected[n])

\* result after the loop { result |= a ^ b } started from 0: bit j is set
\* iff it is set in a ^ b of some pair
Accumulate(signature, expected) ==
    LET xs == ZippedXor(signature, expected)
        r(j) == IF \E x \in xs : Bit(x, j) = 1 THEN 1 ELSE 0
    IN  r(0) + 2 * r(1) + 4 * r(2) + 8 * r(3) + 16 * r(4) + 32 * r(5) + 64 * r(6)
        + 128 * r(7)

\* the timing-safe comparison: length check, then the accumulated XOR
constant_time_eq(signature, expected) ==
    IF Len(signature) # Len(expected) THEN FALSE
    ELSE Accumulate(signature, expected) = 0

Returned(b) == [panic |-> FALSE, ret |-> b]

Unwound == [panic |-> TRUE, ret |-> FALSE]

\* is_webhook_event_valid with the clock reading `current`; headers is the
\* HashMap (a function from lower-cased names to values)
is_webhook_event_valid(body_str, headers, current, checks) ==
    IF X_SIGNATURE \notin DOMAIN headers THEN Returned(FALSE)
    ELSE IF X_TIMESTAMP \notin DOMAIN headers THEN Returned(FALSE)
    ELSE LET signature == headers[X_SIGNATURE]
             timestamp == parse(headers[X_TIMESTAMP])
         IN  IF ~timestamp.ok THEN Returned(FALSE)
             ELSE LET diff_time == i64_sub(current, timestamp.val, checks)
                  IN  IF diff_time.panic THEN Unwound
                      ELSE IF is_stale(diff_time.val) THEN Returned(FALSE)
                      ELSE Returned(constant_time_eq(signature,
                                        expected_hex(timestamp.val, body_str)))

---------------------------------------------------------------------------
(* The handler *)

HashMapInsert(m, k, v) == [x \in (DOMAIN m) \cup {k} |-> IF x = k THEN v ELSE m[x]]

RECURSIVE ExtractHeaders(_, _, _)
\* the loop over headers.iter(): values that are not text are dropped, names
\* are lower-cased, a later value of a name replaces an earlier one
ExtractHeaders(headers, i, m) ==
    IF i > Len(headers) THEN m
    ELSE IF to_str_ok(headers[i].value)
    THEN ExtractHeaders(headers, i + 1,
                        HashMapInsert(m, to_lowercase(headers[i].name), headers[i].value))
    ELSE ExtractHeaders(headers, i + 1, m)

header_map(headers) == ExtractHeaders(headers, 1, <<>>)

Response(status, body) == [kind |-> "response", status |-> status, body |-> body]

\* the handler's task unwound by a panic: no response is written
Panicked == [kind |-> "panic", status |-> 0, body |-> <<>>]

\* webhook_handler printing the body before it verifies the request
webhook_handler_logs_first(request, current, checks) ==
    IF ~request.readable
    THEN [out |-> Response(400, <<>>), printed |-> <<>>]
    ELSE IF ~from_utf8(request.body)
    THEN [out |-> Response(400, <<>>), printed |-> <<>>]
    ELSE LET v == is_webhook_event_valid(request.body, header_map(request.headers),
                                         current, checks)
             line == WEBHOOK_RECEIVED \o request.body
         IN  IF v.panic THEN [out |-> Panicked, printed |-> <<line>>]
             ELSE IF ~v.ret
             THEN [out |-> Response(401, INVALID_WEBHOOK_SIGNATURE),
                   printed |-> <<line, INVALID_WEBHOOK_SIGNATURE>>]
             ELSE [out |-> Response(200, <<>>), printed |-> <<line>>]

\* webhook_handler: what the client gets and the lines println! writes
webhook_handler(request, current, checks) ==
    IF ~request.readable
    THEN [out |-> Response(400, <<>>), printed |-> <<>>]
    ELSE IF ~from_utf8(request.body)
    THEN [out |-> Response(400, <<>>), printed |-> <<>>]
    ELSE LET v == is_webhook_event_valid(request.body, header_map(request.headers),
                                         current, checks)
         IN  IF v.panic THEN [out |-> Panicked, printed |-> <<>>]
             ELSE IF ~v.ret
             THEN [out |-> Response(401, INVALID_WEBHOOK_SIGNATURE),
                   printed |-> <<INVALID_WEBHOOK_SIGNATURE>>]
             ELSE [out |-> Response(200, <<>>),
                   printed |-> <<WEBHOOK_RECEIVED \o request.body>>]

---------------------------------------------------------------------------
(* The senders: the requests the model delivers *)

\* the sender's rendering of a timestamp as a decimal string
RECURSIVE DecimalDigits(_)
DecimalDigits(n) == IF n < 10 THEN <<48 + n>> ELSE DecimalDigits(n \div 10) \o <<48 + (n % 10)>>

Decimal(t) == IF t < 0 THEN <<45>> \o DecimalDigits(-t) ELSE DecimalDigits(t)

\* the sender's signature: lowercase hex HMAC of "<text>.<body>"
Sign(text, body) ==
    hex_encode(HmacSha256(OPENVIDU_MEET_API_KEY, text \o <<46>> \o body))

Same(text) == [present |-> TRUE, text |-> text, signed |-> text]

\* X-Timestamp as sent, and the timestamp text the sender signed
Timestamps ==
    { [present |-> FALSE, text |-> <<>>, signed |-> <<>>],
      Same(Decimal(Now0)),
      Same(Decimal(Now0 - MAX_WEBHOOK_AGE + 1)),
      Same(Decimal(Now0 + 1)),
      Same(Decimal(I64_MAX)),
      Same(Decimal(I64_MAX + 1)),
      Same(Decimal(I64_MIN)),
      Same(Decimal(Now0 - I64_MAX)),
      Same(<<43>> \o Decimal(Now0)),
      [present |-> TRUE, text |-> <<43>> \o Decimal(Now0), signed |-> Decimal(Now0)],
      Same(<<48>> \o Decimal(Now0)),
      [present |-> TRUE, text |-> <<48>> \o Decimal(Now0), signed |-> Decimal(Now0)],
      Same(<<49, 50, 97>>),
      Same(<<>>) }

\* request bodies: unreadable, not UTF-8, {"event":"test"}, and empty
Bodies ==
    { [readable |-> FALSE, body |-> <<>>],
      [readable |-> TRUE, body |-> <<123, 34, 255, 34, 125>>],
      [readable |-> TRUE,
       body |-> <<123, 34, 101, 118, 101, 110, 116, 34, 58, 34, 116, 101, 115,
                  116, 34, 125>>],
      [readable |-> TRUE, body |-> <<>>] }

SignatureForms ==
    {"absent", "opaque", "exact", "truncated", "longer", "flip_first", "flip_last", "upper"}

FlipChar(c) == IF c = 48 THEN 49 ELSE 48

\* the X-Signature header (a sequence of zero or one header) in each form
SignatureHeader(sig, form) ==
    LET n == Len(sig)
        value ==
            CASE form = "exact"      -> sig
              [] form = "truncated"  -> SubSeq(sig, 1, n - 1)
              [] form = "longer"     -> sig \o <<48>>
              [] form = "flip_first" -> <<FlipChar(sig[1])>> \o SubSeq(sig, 2, n)
              [] form = "flip_last"  -> SubSeq(sig, 1, n - 1) \o <<FlipChar(sig[n])>>
              [] form = "upper"      ->
                   [i \in 1..n |-> IF sig[i] >= 97 THEN sig[i] - 32 ELSE sig[i]]
              [] OTHER               -> <<255>>
    IN  IF form = "absent" THEN <<>> ELSE <<[name |-> X_SIGNATURE, value |-> value]>>

MakeRequest(b, t, form) ==
    [readable |-> b.readable,
     body     |-> b.body,
     headers  |-> (IF t.present THEN <<[name |-> X_TIMESTAMP, value |-> t.text]>> ELSE <<>>)
                  \o SignatureHeader(Sign(t.signed, b.body), form)]

Requests ==
    { MakeRequest(b, t, form) : b \in Bodies, t \in Timestamps, form \in SignatureForms }

\* requests of other senders, delivered in between: one the verifier
\* accepts at every clock value of the model, and one it rejects
OtherRequests ==
    { MakeRequest([readable |-> TRUE, body |-> <<123, 125>>], Same(Decimal(I64_MAX)), form) :
        form \in {"exact", "absent"} }

---------------------------------------------------------------------------
(* The state machine *)

\* after main has printed its banner and bound the listener; the build
\* profile (overflow checks on or off) is fixed for the run
Init ==
    /\ now = Now0
    /\ overflow_checks \in BOOLEAN
    /\ stdout = <<LISTENING_ON_PORT \o to_string(SERVER_PORT)>>
    /\ msg \in Requests
    /\ replies = <<>>

\* the wall clock advances by a millisecond
Tick ==
    /\ now < Now0 + MaxTicks
    /\ now' = now + 1
    /\ UNCHANGED <<overflow_checks, stdout, msg, replies>>

\* the sender posts its request (again); the handler answers it
Deliver ==
    /\ Len(replies) < MaxDeliveries
    /\ Len(stdout) < MaxLog
    /\ LET h == webhook_handler(msg, now, overflow_checks)
       IN  /\ replies' = Append(replies, [at |-> now, out |-> h.out])
           /\ stdout' = stdout \o h.printed
    /\ UNCHANGED <<now, overflow_checks, msg>>

\* the handler answers a request of another sender
DeliverOther ==
    /\ Len(stdout) < MaxLog
    /\ \E r \in OtherRequests :
          stdout' = stdout \o webhook_handler(r, now, overflow_checks).printed
    /\ UNCHANGED <<now, overflow_checks, msg, replies>>

Next == Tick \/ Deliver \/ DeliverOther

Spec == Init /\ [][Next]_vars

---------------------------------------------------------------------------
(* Vocabulary of the properties: the sender's request as the handler sees it *)

BodyIsText == msg.readable /\ from_utf8(msg.body)

Headers == header_map(msg.headers)

HasSignature == X_SIGNATURE \in DOMAIN Headers

HasTimestamp == X_TIMESTAMP \in DOMAIN Headers

SignatureText == Headers[X_SIGNATURE]

TimestampText == Headers[X_TIMESTAMP]

Timestamp == parse(TimestampText)

\* the timestamp header is the decimal string of the integer it parses to
Canonical == Timestamp.ok /\ Decimal(Timestamp.val) = TimestampText

\* now - timestamp at delivery i, as a mathematical integer
Age(i) == replies[i].at - Timestamp.val

Accepted == Response(200, <<>>)

Rejected == Response(401, INVALID_WEBHOOK_SIGNATURE)

\* the line occurs in the text
Contains(line, text) ==
    \E k \in 0..(Len(line) - Len(text)) : SubSeq(line, k + 1, k + Len(text)) = text

\* the request carries both headers, a canonical timestamp and the
\* sender's signature of "<timestamp>.<body>"
CorrectlySigned ==
    /\ BodyIsText
    /\ HasSignature
    /\ HasTimestamp
    /\ Canonical
    /\ SignatureText = Sign(TimestampText, msg.body)

---------------------------------------------------------------------------
(* Properties *)

\* C1: a request with a text body, an X-Timestamp that is the decimal string
\* of t with now - t < 120000, and the lowercase hex HMAC of "<t>.<body>" as
\* X-Signature is answered 200 with an empty body.
C1_ValidRequestAccepted ==
    \A i \in DOMAIN replies :
        (CorrectlySigned /\ Age(i) < MAX_WEBHOOK_AGE) => replies[i].out = Accepted

\* a correctly signed request with a non-empty body and a timestamp in the
\* past inside the window has been accepted
C1_Witness ==
    \E i \in DOMAIN replies :
        /\ CorrectlySigned
        /\ Len(msg.body) > 0
        /\ Age(i) > 0
        /\ Age(i) < MAX_WEBHOOK_AGE
        /\ replies[i].out = Accepted

\* one of the five causes of an authentication failure applies at delivery i
AuthFailure(i) ==
    \/ ~HasSignature
    \/ ~HasTimestamp
    \/ ~Timestamp.ok
    \/ Age(i) >= MAX_WEBHOOK_AGE
    \/ SignatureText # expected_hex(Timestamp.val, msg.body)

\* C2: every authentication failure of a request with a text body (header
\* missing, timestamp unparseable or stale, signature mismatch) is answered
\* 401 "Invalid webhook signature".
C2_UniformRejection ==
    \A i \in DOMAIN replies :
        (BodyIsText /\ AuthFailure(i)) => replies[i].out = Rejected

\* C3: a correctly signed request is answered 401 when now - timestamp is at
\* least 120000 and 200 when it is 119999.
C3_FreshnessThreshold ==
    \A i \in DOMAIN replies :
        CorrectlySigned =>
            /\ (Age(i) >= MAX_WEBHOOK_AGE => replies[i].out = Rejected)
            /\ (Age(i) = MAX_WEBHOOK_AGE - 1 => replies[i].out = Accepted)

\* C4: with both headers present and a fresh, parseable timestamp, every
\* X-Signature that differs from the expected hex HMAC (in length or in any
\* position) is answered 401.
C4_MismatchRejected ==
    \A i \in DOMAIN replies :
        ( /\ BodyIsText
          /\ HasSignature
          /\ HasTimestamp
          /\ Timestamp.ok
          /\ Age(i) < MAX_WEBHOOK_AGE
          /\ SignatureText # expected_hex(Timestamp.val, msg.body) )
        => replies[i].out = Rejected

\* a signature of the right length that differs from the expected one in its
\* first character only has been rejected
C4_Witness ==
    \E i \in DOMAIN replies :
        /\ BodyIsText /\ HasSignature /\ HasTimestamp /\ Timestamp.ok
        /\ Age(i) < MAX_WEBHOOK_AGE
        /\ LET e == expected_hex(Timestamp.val, msg.body)
           IN  /\ Len(SignatureText) = Len(e)
               /\ SignatureText[1] # e[1]
               /\ \A k \in 2..Len(e) : SignatureText[k] = e[k]
        /\ replies[i].out = Rejected

\* C5 (as stated): with a fresh, parseable timestamp the request is accepted
\* exactly when X-Signature is the HMAC of "<x-timestamp as received>.<body>".
C5_PayloadFromReceivedText ==
    \A i \in DOMAIN replies :
        ( /\ BodyIsText /\ HasSignature /\ HasTimestamp /\ Timestamp.ok
          /\ Age(i) < MAX_WEBHOOK_AGE )
        => (replies[i].out = Accepted <=> SignatureText = Sign(TimestampText, msg.body))

\* C5 (amended): with a fresh, parseable timestamp the request is accepted
\* exactly when X-Signature is the HMAC of "<decimal rendering of the parsed
\* integer>.<body>"; a leading '+' or leading zeros are not part of it.
C5_PayloadFromParsedInteger ==
    \A i \in DOMAIN replies :
        ( /\ BodyIsText /\ HasSignature /\ HasTimestamp /\ Timestamp.ok
          /\ Age(i) < MAX_WEBHOOK_AGE )
        => (replies[i].out = Accepted
              <=> SignatureText = Sign(Decimal(Timestamp.val), msg.body))

\* a request whose x-timestamp is not the canonical decimal string, signed
\* over the canonical string, has been accepted
C5_Witness ==
    \E i \in DOMAIN replies :
        /\ BodyIsText /\ HasSignature /\ HasTimestamp /\ Timestamp.ok
        /\ TimestampText # Decimal(Timestamp.val)
        /\ SignatureText = Sign(Decimal(Timestamp.val), msg.body)
        /\ SignatureText # Sign(TimestampText, msg.body)
        /\ replies[i].out = Accepted

\* C6: the verifier never faults: every delivery ends with a response, none
\* with a panic.
C6_NeverFaults ==
    \A i \in DOMAIN replies : replies[i].out.kind = "response"

\* C7: the answer is 400 exactly when the body cannot be read or is not
\* UTF-8, and a request with a text body is answered 200 or 401.
C7_BadRequestIffBodyNotText ==
    \A i \in DOMAIN replies :
        /\ replies[i].out = Response(400, <<>>) <=> ~BodyIsText
        /\ BodyIsText =>
              (replies[i].out.kind = "response" /\ replies[i].out.status \in {200, 401})

\* C8 (as stated): whenever a request with a text body is answered 200 or
\* 401, a line holding its body is written to the log.
C8_BodyAlwaysLogged ==
    [][ ( /\ Len(replies') = Len(replies) + 1
          /\ BodyIsText
          /\ replies'[Len(replies')].out.status \in {200, 401} )
        => \E k \in (Len(stdout) + 1)..Len(stdout') : Contains(stdout'[k], msg.body)
      ]_vars

\* C8 (amended): a request with a text body has its body written to the log
\* ("Webhook received: <body>") only when it is answered 200; when it is
\* answered 401 the one line written is "Invalid webhook signature".
C8_BodyLoggedWhenAccepted ==
    [][ ( /\ Len(replies') = Len(replies) + 1
          /\ BodyIsText )
        => LET out == replies'[Len(replies')].out
           IN  /\ out = Accepted => stdout' = Append(stdout, WEBHOOK_RECEIVED \o msg.body)
               /\ out = Rejected => stdout' = Append(stdout, INVALID_WEBHOOK_SIGNATURE)
      ]_vars

\* a request with a non-empty text body has been answered 401, the log holds
\* the fixed line and no line of the log holds the body
C8_Witness ==
    /\ BodyIsText
    /\ Len(msg.body) > 0
    /\ \E i \in DOMAIN replies : replies[i].out = Rejected
    /\ \E k \in DOMAIN stdout : stdout[k] = INVALID_WEBHOOK_SIGNATURE
    /\ \A k \in DOMAIN stdout : ~Contains(stdout[k], msg.body)

\* C9: a correctly signed request whose timestamp lies in the future (by any
\* amount) is answered 200.
C9_FutureAccepted ==
    \A i \in DOMAIN replies :
        (CorrectlySigned /\ Timestamp.val > replies[i].at) => replies[i].out = Accepted

\* a correctly signed request stamped with the largest timestamp has been
\* accepted
C9_Witness ==
    \E i \in DOMAIN replies :
        /\ CorrectlySigned
        /\ Timestamp.val = I64_MAX
        /\ replies[i].out = Accepted

\* C10: over the deliveries of one request, deliveries at the same clock
\* value get the same answer, every delivery of a correctly signed request
\* inside the window is accepted, and no delivery is answered 200 after an
\* earlier one was answered 401.
C10_MonotoneVerdicts ==
    \A i, j \in DOMAIN replies :
        /\ replies[i].at = replies[j].at => replies[i].out = replies[j].out
        /\ (CorrectlySigned /\ Age(i) < MAX_WEBHOOK_AGE) => replies[i].out = Accepted
        /\ (i < j /\ replies[i].out = Rejected) => replies[j].out # Accepted

=============================================================================
